---------------------------- MODULE Spec2Model ----------------------------
(***************************************************************************)
(* The work-item store (src/src/db.py) and the stage orchestrator with its *)
(* retry policy (src/src/pipeline.py) of the video ingestion pipeline.     *)
(*                                                                         *)
(* Every action is one database statement of the code together with the   *)
(* local computation and the collaborator call that precede it, so that    *)
(* workers and operator commands interleave exactly at the statements that *)
(* commit.  get_next_video is two actions: BEGIN IMMEDIATE with its        *)
(* SELECT, and the UPDATE with its COMMIT; the write lock taken by BEGIN   *)
(* IMMEDIATE is the variable lock, and every other writer waits for it.    *)
(***************************************************************************)
EXTENDS Naturals, Sequences, FiniteSets

(* Work items.  "a" is a remote item, "b" a local file. *)
Ids == {"a", "b"}

(* Worker processes, each started by `run [step]`. *)
Workers == {"w1", "w2"}

(* prepare() stores remote items as 'youtube' and --local-paths as 'local'. *)
SourceOf(v) == IF v = "a" THEN "youtube" ELSE "local"

(* `run` with no step is the full pipeline. *)
Steps == {"full", "download", "transcribe", "ingest"}

(* MAX_RETRIES = int(os.getenv("MAX_RETRIES", "1")), here configured to 2. *)
MAX_RETRIES == 2

(* The operator issues at most this many commands (prepare, retry) in a    *)
(* run; retry never resets the retries counter, which would grow forever.  *)
MaxOps == 2

NULL == "NULL"
NoVid == "novid"
NoRow == <<>>
None == <<>>

(* Nothing printed yet. *)
Nothing == [cmd |-> "none", counts |-> <<>>, failed |-> <<>>]
Statuses ==
  {"todo", "downloading", "downloaded", "transcribing", "transcribed",
   "ingesting", "done", "failed"}

VARIABLES
  status,     \* videos.status per id; "none" when the id has no row
  retries,    \* videos.retries per id
  error,      \* videos.error per id; NULL or the message stored
  created,    \* the ids that have a row, in the order the rows were created
  created_fmt,\* how each row's created_at text was written: "iso" or "sql"
  analysis,   \* the ids that have a row in the analysis table
  analysis_row, \* the analysis row per id, <<summary, topics>>; NoRow if none
  subtitles,  \* the subtitles rows per id, each <<start_sec, end_sec>>
  media,      \* the ids whose media file exists on disk
  artifact,   \* the ids whose <stem>_transcription.md exists on disk
  lock,       \* the connection holding the database write lock, or NoVid
  pc,         \* where each worker is in run_worker
  mode,       \* the step each worker was started with
  cur,        \* vid: the item the worker claimed
  err,        \* error_msg / str(e) of the worker's current iteration
  res,        \* await_result: what ingest_transcription returned
  rv,         \* retries: what increment_retries returned
  ops,        \* the number of operator commands issued so far
  content,    \* what the transcripts carry: "rich" (timed segments in the
              \* offmute JSON with summary and topics, an Audio Analysis
              \* section in the file) or "plain" (a transcript and no more)
  tree,       \* the files under DOWNLOAD_DIR that the transcript lookup of
              \* run_worker is applied to, each the string of its path
  transcription_path, \* run_worker's local of that name: a path, or None
  vids,       \* the rows db.list_videos() hands to a reporting command
  printed     \* what the last reporting command printed

dbVars == <<status, retries, error, created, created_fmt, analysis, analysis_row,
           subtitles>>
fsVars == <<media, artifact>>
workerVars == <<pc, mode, cur, err, res, rv>>
envVars == <<content, tree, transcription_path, vids, printed>>
vars == <<status, retries, error, created, created_fmt, analysis, analysis_row,
          subtitles, media, artifact, lock,
          pc, mode, cur, err, res, rv, ops, content, tree, transcription_path,
          vids, printed>>

-----------------------------------------------------------------------------
(* Database *)

(* A claim table whose full-pipeline claim takes rows left 'downloading'. *)
status_to_claim_parked(step) ==
  CASE step = "transcribe" -> "downloaded"
    [] step = "download" -> "todo"
    [] step = "ingest" -> "transcribed"
    [] OTHER -> "downloading"

(* get_next_video: the status a step claims from. *)
status_to_claim(step) ==
  CASE step = "transcribe" -> "downloaded"
    [] step = "download" -> "todo"
    [] step = "ingest" -> "transcribed"
    [] OTHER -> "todo"

(* get_next_video: the in-progress status a claim writes. *)
new_status(step) ==
  CASE step = "transcribe" -> "transcribing"
    [] step = "download" -> "downloading"
    [] step = "ingest" -> "ingesting"
    [] OTHER -> "downloading"

(* created_at is a TEXT column.  Database.add_video stores                 *)
(* datetime.utcnow().isoformat(), "2025-05-01T10:00:00.123456", and        *)
(* fix_ingest stores datetime('now'), "2025-05-01 10:00:00"; both are UTC. *)
(* All commands of a run fall on one UTC day, so two texts agree up to the *)
(* date and differ at the separator when the formats differ: " " sorts     *)
(* before "T".  Texts of one format compare as the times do.               *)
CreatedAtLess(i, j) ==
  IF created_fmt[created[i]] = created_fmt[created[j]]
  THEN i < j
  ELSE created_fmt[created[i]] = "sql"

(* SELECT id FROM videos WHERE status=? ORDER BY created_at LIMIT 1:       *)
(* the positions in creation order of the rows in the status claimed.      *)
Matching(step) ==
  {i \in 1..Len(created) : status[created[i]] = status_to_claim(step)}

FirstMatching(step) ==
  created[CHOOSE i \in Matching(step) :
            \A j \in Matching(step) \ {i} : CreatedAtLess(i, j)]

(* A store whose connections never wait for the write lock. *)
CanWriteUnlocked == TRUE

(* BEGIN IMMEDIATE succeeds, and every other write statement runs, only    *)
(* when no other connection holds the write lock.                          *)
CanWrite == lock = NoVid

(* A status update that leaves the error column alone. *)
update_video_status_status_only(id, st, er) ==
  /\ status' = [status EXCEPT ![id] = st]
  /\ UNCHANGED error

(* A status update that writes the error column only when one is given. *)
update_video_status_keeping_error(id, st, er) ==
  /\ status' = [status EXCEPT ![id] = st]
  /\ error' = IF er = NULL THEN error ELSE [error EXCEPT ![id] = er]

(* UPDATE videos SET status=?, updated_at=?, error=? WHERE id=? *)
update_video_status(id, st, er) ==
  /\ status' = [status EXCEPT ![id] = st]
  /\ error' = [error EXCEPT ![id] = er]

(* A claim that also clears the error column, as update_video_status does. *)
ClaimUpdateClearingError(id, st) ==
  /\ status' = [status EXCEPT ![id] = st]
  /\ error' = [error EXCEPT ![id] = NULL]
  /\ UNCHANGED retries

(* The UPDATE of get_next_video: status (and updated_at) only. *)
ClaimUpdate(id, st) ==
  /\ status' = [status EXCEPT ![id] = st]
  /\ UNCHANGED <<retries, error>>

(* An increment_retries that counts a failure twice. *)
IncrementUpdateTwice(id) ==
  retries' = [retries EXCEPT ![id] = @ + 2]

(* An increment_retries that leaves the counter as it is. *)
IncrementUpdateSkipped(id) ==
  UNCHANGED retries

(* UPDATE videos SET retries = retries + 1 WHERE id=? *)
IncrementUpdate(id) ==
  retries' = [retries EXCEPT ![id] = @ + 1]

(* A retry policy that always requeues. *)
RetryStatusRequeue(r) == "todo"

(* A retry policy that requeues up to and including the cap. *)
RetryStatusInclusive(r) == IF r <= MAX_RETRIES THEN "todo" ELSE "failed"

(* The retry policy of run_worker's exception handler. *)
RetryStatus(r) == IF r < MAX_RETRIES THEN "todo" ELSE "failed"

(* created_at of a row. Database.add_video keeps it on conflict. *)
CreatedAfterUpsert(v) ==
  IF status[v] = "none" THEN Append(created, v) ELSE created

(* An upsert that writes its own created_at text on conflict too. *)
FmtAfterUpsertRestamped(v) ==
  [created_fmt EXCEPT ![v] = "iso"]

(* Database.add_video writes isoformat() in a new row and keeps the        *)
(* created_at text of an existing one.                                     *)
FmtAfterUpsert(v) ==
  IF status[v] = "none" THEN [created_fmt EXCEPT ![v] = "iso"] ELSE created_fmt

(* A plain INSERT into a table with no primary key. *)
CreatedAfterInsert(v) ==
  Append(created, v)

(* INSERT OR REPLACE writes a new row with created_at = now. *)
CreatedAfterReplace(v) ==
  Append(SelectSeq(created, LAMBDA x : x # v), v)

-----------------------------------------------------------------------------
(* Operator commands *)

(* One more command of the operator. *)
Command == ops < MaxOps /\ ops' = ops + 1 /\ UNCHANGED envVars

(* Database.add_video: the upsert of prepare(). *)
add_video(v) ==
  /\ Command
  /\ CanWrite
  /\ status' = [status EXCEPT ![v] = "todo"]
  /\ retries' = [retries EXCEPT ![v] = 0]
  /\ error' = [error EXCEPT ![v] = NULL]
  /\ created' = CreatedAfterUpsert(v)
  /\ created_fmt' = FmtAfterUpsert(v)
  /\ UNCHANGED <<analysis, analysis_row, subtitles, fsVars, lock, workerVars>>

(* A REPLACE of the videos row that takes the rows referencing it along. *)
fix_ingest_add_video_cascading(v) ==
  /\ Command
  /\ CanWrite
  /\ SourceOf(v) = "youtube"
  /\ status' = [status EXCEPT ![v] = "todo"]
  /\ retries' = [retries EXCEPT ![v] = 0]
  /\ error' = [error EXCEPT ![v] = NULL]
  /\ created' = CreatedAfterReplace(v)
  /\ created_fmt' = [created_fmt EXCEPT ![v] = "sql"]
  /\ analysis' = analysis \ {v}
  /\ analysis_row' = [analysis_row EXCEPT ![v] = NoRow]
  /\ subtitles' = [subtitles EXCEPT ![v] = {}]
  /\ UNCHANGED <<fsVars, lock, workerVars>>

(* fix_ingest.add_video: INSERT OR REPLACE of a channel video. *)
fix_ingest_add_video(v) ==
  /\ Command
  /\ CanWrite
  /\ SourceOf(v) = "youtube"
  /\ status' = [status EXCEPT ![v] = "todo"]
  /\ retries' = [retries EXCEPT ![v] = 0]
  /\ error' = [error EXCEPT ![v] = NULL]
  /\ created' = CreatedAfterReplace(v)
  /\ created_fmt' = [created_fmt EXCEPT ![v] = "sql"]
  /\ UNCHANGED <<analysis, analysis_row, subtitles, fsVars, lock, workerVars>>

(* A retry that sends every step back to 'todo'. *)
RetryEntryStatusTodo(step) == "todo"

(* retry(): the entry status of the step asked for. *)
RetryEntryStatus(step) ==
  CASE step = "download" -> "todo"
    [] step = "transcribe" -> "downloaded"
    [] step = "ingest" -> "transcribed"
    [] OTHER -> "todo"

(* pipeline.retry: `retry <id> [--step s]`.  An id that is not in the      *)
(* store is reported and nothing is written.                               *)
retry(v, step) ==
  /\ Command
  /\ IF status[v] = "none"
     THEN UNCHANGED <<status, error>>
     ELSE /\ CanWrite
          /\ update_video_status(v, RetryEntryStatus(step), NULL)
  /\ UNCHANGED <<retries, created, created_fmt, analysis, analysis_row, subtitles, fsVars, lock, workerVars>>

-----------------------------------------------------------------------------
(* The worker loop *)

(* The worker goes back to the top of `while True`. *)
NextIteration(w) ==
  /\ pc' = [pc EXCEPT ![w] = "loop"]
  /\ cur' = [cur EXCEPT ![w] = NoVid]
  /\ err' = [err EXCEPT ![w] = NULL]
  /\ res' = [res EXCEPT ![w] = "none"]
  /\ rv' = [rv EXCEPT ![w] = 0]
  /\ UNCHANGED mode

(* The worker moves on inside the iteration. *)
Goto(w, label) ==
  /\ pc' = [pc EXCEPT ![w] = label]
  /\ UNCHANGED <<mode, cur, rv>>

(* An exception reaches `except Exception as e`: increment_retries' UPDATE. *)
Raise(w, msg) ==
  /\ CanWrite
  /\ IncrementUpdate(cur[w])
  /\ err' = [err EXCEPT ![w] = msg]
  /\ Goto(w, "inc_done")
  /\ UNCHANGED <<status, error, created, created_fmt, analysis, analysis_row, subtitles, ops, envVars, lock, res>>

(* run_worker(args): `run [step]`. *)
run_worker(w, step) ==
  /\ pc[w] = "stopped"
  /\ pc' = [pc EXCEPT ![w] = "loop"]
  /\ mode' = [mode EXCEPT ![w] = step]
  /\ UNCHANGED <<dbVars, fsVars, lock, ops, envVars, cur, err, res, rv>>

(* A loop that polls again when get_next_video returns None. *)
get_next_video_none_polling(w) ==
  /\ pc[w] = "loop"
  /\ CanWrite
  /\ Matching(mode[w]) = {}
  /\ UNCHANGED vars

(* get_next_video: BEGIN IMMEDIATE, SELECT; no row: commit, return None,   *)
(* and the loop breaks.                                                    *)
get_next_video_none(w) ==
  /\ pc[w] = "loop"
  /\ CanWrite
  /\ Matching(mode[w]) = {}
  /\ pc' = [pc EXCEPT ![w] = "stopped"]
  /\ mode' = [mode EXCEPT ![w] = "full"]
  /\ UNCHANGED <<dbVars, fsVars, lock, ops, envVars, cur, err, res, rv>>

(* The worker process dies anywhere in run_worker.  Nothing is written; a  *)
(* transaction left open by get_next_video is rolled back when its         *)
(* connection goes, which frees the write lock.                            *)
crash(w) ==
  /\ pc[w] # "stopped"
  /\ pc' = [pc EXCEPT ![w] = "stopped"]
  /\ mode' = [mode EXCEPT ![w] = "full"]
  /\ cur' = [cur EXCEPT ![w] = NoVid]
  /\ err' = [err EXCEPT ![w] = NULL]
  /\ res' = [res EXCEPT ![w] = "none"]
  /\ rv' = [rv EXCEPT ![w] = 0]
  /\ lock' = IF lock = w THEN NoVid ELSE lock
  /\ UNCHANGED <<dbVars, fsVars, ops, envVars>>

(* get_next_video: BEGIN IMMEDIATE, SELECT of the oldest matching row. *)
get_next_video_select(w) ==
  /\ pc[w] = "loop"
  /\ CanWrite
  /\ Matching(mode[w]) # {}
  /\ lock' = w
  /\ cur' = [cur EXCEPT ![w] = FirstMatching(mode[w])]
  /\ pc' = [pc EXCEPT ![w] = "claim_tx"]
  /\ UNCHANGED <<dbVars, fsVars, ops, envVars, mode, err, res, rv>>

(* get_next_video: UPDATE, COMMIT, return the row. *)
get_next_video_update(w) ==
  /\ pc[w] = "claim_tx"
  /\ ClaimUpdate(cur[w], new_status(mode[w]))
  /\ lock' = NoVid
  /\ Goto(w, "claimed")
  /\ UNCHANGED <<created, created_fmt, analysis, analysis_row, subtitles, ops, envVars, fsVars, err, res>>

-----------------------------------------------------------------------------
(* Acquire stage *)

(* The media files after a download that produced its file: the remote     *)
(* item's mp4 is in DOWNLOAD_DIR; a local item is used where it is.        *)
Downloaded(v) == IF SourceOf(v) = "youtube" THEN media \cup {v} ELSE media

(* download_video: db.update_video_status(vid, "downloading"). *)
download_video_mark(w) ==
  /\ pc[w] = "claimed"
  /\ mode[w] \in {"full", "download"}
  /\ CanWrite
  /\ update_video_status(cur[w], "downloading", NULL)
  /\ Goto(w, "downloading")
  /\ UNCHANGED <<retries, created, created_fmt, analysis, analysis_row, subtitles, ops, envVars, fsVars, lock, err, res>>

(* download_video: the download left no file matching the pattern, and     *)
(* FileNotFoundError reaches run_worker's handler.                         *)
download_video_not_found(w) ==
  /\ pc[w] = "downloading"
  /\ SourceOf(cur[w]) = "youtube"
  /\ cur[w] \notin media
  /\ Raise(w, "downloaded_file_not_found")
  /\ UNCHANGED fsVars

(* run_worker, step download: download_video returned; 'downloaded'. *)
run_worker_downloaded(w) ==
  /\ pc[w] = "downloading"
  /\ mode[w] = "download"
  /\ CanWrite
  /\ media' = Downloaded(cur[w])
  /\ update_video_status(cur[w], "downloaded", NULL)
  /\ NextIteration(w)
  /\ UNCHANGED <<retries, created, created_fmt, analysis, analysis_row, subtitles, ops, envVars, artifact, lock>>

-----------------------------------------------------------------------------
(* Transcribe stage *)

(* run_worker, step transcribe or ingest: no mp4 of a remote item found. *)
run_worker_must_download(w) ==
  /\ pc[w] = "claimed"
  /\ mode[w] \in {"transcribe", "ingest"}
  /\ SourceOf(cur[w]) = "youtube"
  /\ cur[w] \notin media
  /\ CanWrite
  /\ update_video_status(cur[w], "failed", "must_download_first")
  /\ NextIteration(w)
  /\ UNCHANGED <<retries, created, created_fmt, analysis, analysis_row, subtitles, ops, envVars, fsVars, lock>>

(* The worker reaches `if step is None or step == "transcribe"`. *)
AtTranscribe(w) ==
  \/ mode[w] = "transcribe" /\ pc[w] = "claimed"
  \/ mode[w] = "full" /\ pc[w] = "downloading"

(* The media files when the transcribe stage looks for file_path. *)
MediaAtTranscribe(w) ==
  IF mode[w] = "full" THEN Downloaded(cur[w]) ELSE media

(* run_worker: file_path does not exist. *)
run_worker_file_missing(w) ==
  /\ AtTranscribe(w)
  /\ SourceOf(cur[w]) = "local"
  /\ cur[w] \notin media
  /\ CanWrite
  /\ update_video_status(cur[w], "failed", "video_file_not_found")
  /\ NextIteration(w)
  /\ UNCHANGED <<retries, created, created_fmt, analysis, analysis_row, subtitles, ops, envVars, fsVars, lock>>

(* A transcribe_video that does not look for the transcription file. *)
transcribe_video_ignoring_file(w) ==
  /\ AtTranscribe(w)
  /\ cur[w] \in MediaAtTranscribe(w)
  /\ cur[w] \in artifact
  /\ CanWrite
  /\ media' = MediaAtTranscribe(w)
  /\ update_video_status(cur[w], "transcribing", NULL)
  /\ Goto(w, "transcribing")
  /\ UNCHANGED <<retries, created, created_fmt, analysis, analysis_row, subtitles, ops, envVars, artifact, lock, err, res>>

(* transcribe_video: the transcription file exists; 'transcribed' is       *)
(* written before the file is parsed and saved.                            *)
transcribe_video_existing(w) ==
  /\ AtTranscribe(w)
  /\ cur[w] \in MediaAtTranscribe(w)
  /\ cur[w] \in artifact
  /\ CanWrite
  /\ media' = MediaAtTranscribe(w)
  /\ update_video_status(cur[w], "transcribed", NULL)
  /\ Goto(w, "resumed")
  /\ UNCHANGED <<retries, created, created_fmt, analysis, analysis_row, subtitles, ops, envVars, artifact, lock, err, res>>

(* transcribe_video: no transcription file; 'transcribing'. *)
transcribe_video_mark(w) ==
  /\ AtTranscribe(w)
  /\ cur[w] \in MediaAtTranscribe(w)
  /\ cur[w] \notin artifact
  /\ CanWrite
  /\ media' = MediaAtTranscribe(w)
  /\ update_video_status(cur[w], "transcribing", NULL)
  /\ Goto(w, "transcribing")
  /\ UNCHANGED <<retries, created, created_fmt, analysis, analysis_row, subtitles, ops, envVars, artifact, lock, err, res>>

(* A transcribe stage after which every worker goes on to ingest. *)
AfterTranscribeFallThrough(w) ==
  Goto(w, "ingest_entry") /\ UNCHANGED <<err, res>>

(* The transcribe stage is over: the next iteration, or the ingest stage. *)
AfterTranscribe(w) ==
  IF mode[w] = "transcribe"
  THEN NextIteration(w)
  ELSE Goto(w, "ingest_entry") /\ UNCHANGED <<err, res>>

(* The segment lists a rich offmute JSON carries, as <<start, end>> in     *)
(* tenths of a second: two long segments, or two short ones within the     *)
(* first second.                                                           *)
OffmuteSegments ==
  { << <<0, 15>>, <<15, 25>> >>, << <<0, 4>>, <<5, 9>> >> }

(* _offmute_transcribe: the JSON's segments and its analysis fields, or    *)
(* without a "segments" key one segment (0.0, 0.0, transcript) and the     *)
(* defaults of data.get.                                                   *)
offmute_transcribe ==
  IF content = "rich"
  THEN {[segments |-> s, analysis |-> <<"summary", "topics">>] : s \in OffmuteSegments}
  ELSE {[segments |-> << <<0, 0>> >>, analysis |-> <<"", "[]">>]}

(* _deepgram_transcribe: one segment (0.0, 0.0, transcript), empty analysis. *)
deepgram_transcribe ==
  [segments |-> << <<0, 0>> >>, analysis |-> <<"", "[]">>]

(* _parse_transcription_file: one segment (0.0, 0.0, transcript), the      *)
(* Audio Analysis section (if the file has one) as the summary, no topics. *)
parse_transcription_file ==
  [segments |-> << <<0, 0>> >>,
   analysis |-> <<IF content = "rich" THEN "audio_analysis" ELSE "", "[]">>]

(* Transcriber.transcribe: what it may return for item v.  An existing     *)
(* file is parsed.  Otherwise offmute runs and may write the file: its     *)
(* JSON is returned, or on a failure the file is parsed if it was written, *)
(* else DeepGram transcribes.                                              *)
transcribe(v, written) ==
  IF v \in artifact
  THEN {parse_transcription_file}
  ELSE offmute_transcribe \cup
         (IF written THEN {parse_transcription_file} ELSE {deepgram_transcribe})

(* int(start), int(end): a time in tenths of a second cut to whole seconds. *)
int(t) == t \div 10

(* save_subtitle: INSERT OR REPLACE on the key (video_id, start_sec). *)
save_subtitle(rows, start_sec, end_sec) ==
  {r \in rows : r[1] # start_sec} \cup {<<start_sec, end_sec>>}

(* transcribe_video: `for start, end, text in segments: save_subtitle`. *)
RECURSIVE SaveSubtitles(_, _)
SaveSubtitles(rows, segments) ==
  IF segments = <<>>
  THEN rows
  ELSE SaveSubtitles(save_subtitle(rows, int(Head(segments)[1]), int(Head(segments)[2])),
                     Tail(segments))

(* An analysis save that keeps the stored topics of an earlier row. *)
save_analysis_merging(row, analysis_dict) ==
  IF row = NoRow THEN analysis_dict ELSE <<analysis_dict[1], row[2]>>

(* save_analysis: INSERT OR REPLACE on the key video_id. *)
save_analysis(row, analysis_dict) == analysis_dict

(* transcribe_video: transcribe() returned; segments and analysis saved,   *)
(* 'transcribed'.  The backend may have written the transcription file.    *)
transcribe_video_done(w) ==
  /\ pc[w] = "transcribing"
  /\ CanWrite
  /\ \E written \in BOOLEAN : \E r \in transcribe(cur[w], written) :
       /\ artifact' = IF written THEN artifact \cup {cur[w]} ELSE artifact
       /\ subtitles' = [subtitles EXCEPT ![cur[w]] = SaveSubtitles(@, r.segments)]
       /\ analysis_row' = [analysis_row EXCEPT ![cur[w]] = save_analysis(@, r.analysis)]
  /\ analysis' = analysis \cup {cur[w]}
  /\ update_video_status(cur[w], "transcribed", NULL)
  /\ AfterTranscribe(w)
  /\ UNCHANGED <<retries, created, created_fmt, ops, envVars, media, lock>>

(* transcribe_video: transcribe() raised (no file to fall back on). *)
transcribe_video_raised(w) ==
  /\ pc[w] = "transcribing"
  /\ cur[w] \notin artifact
  /\ Raise(w, "transcribe_raised")
  /\ UNCHANGED fsVars

(* transcribe_video, existing file: parsed, segments and analysis saved. *)
transcribe_video_saved(w) ==
  /\ pc[w] = "resumed"
  /\ CanWrite
  /\ \E r \in transcribe(cur[w], FALSE) :
       /\ subtitles' = [subtitles EXCEPT ![cur[w]] = SaveSubtitles(@, r.segments)]
       /\ analysis_row' = [analysis_row EXCEPT ![cur[w]] = save_analysis(@, r.analysis)]
  /\ analysis' = analysis \cup {cur[w]}
  /\ AfterTranscribe(w)
  /\ UNCHANGED <<status, retries, error, created, created_fmt, ops, envVars, fsVars, lock>>

-----------------------------------------------------------------------------
(* Ingest stage *)

(* The worker reaches `if step is None or step == "ingest"`. *)
AtIngest(w) ==
  \/ /\ mode[w] = "ingest"
     /\ pc[w] = "claimed"
     /\ SourceOf(cur[w]) = "youtube" => cur[w] \in media
  \/ mode[w] = "full" /\ pc[w] = "ingest_entry"

(* The ingest stage is over for a step-ingest worker; the full pipeline    *)
(* goes on to `if step is None`.                                           *)
AfterIngest(w, result, msg) ==
  IF mode[w] = "ingest"
  THEN NextIteration(w)
  ELSE /\ Goto(w, "mark_done")
       /\ res' = [res EXCEPT ![w] = result]
       /\ err' = [err EXCEPT ![w] = msg]

(* run_worker: no transcription file at any expected location.  Step       *)
(* ingest writes 'failed'; the full pipeline only logs the error.          *)
run_worker_no_transcript(w) ==
  /\ AtIngest(w)
  /\ cur[w] \notin artifact
  /\ IF mode[w] = "ingest"
     THEN /\ CanWrite
          /\ update_video_status(cur[w], "failed", "transcript_not_found")
     ELSE UNCHANGED <<status, error>>
  /\ AfterIngest(w, "none", "transcript_not_found")
  /\ UNCHANGED <<retries, created, created_fmt, analysis, analysis_row, subtitles, ops, envVars, fsVars, lock>>

(* ingest_transcription: GraphitiManager() raised or the schema was not    *)
(* initialized; 'failed', return False.                                    *)
ingest_transcription_init_failed(w) ==
  /\ AtIngest(w)
  /\ cur[w] \in artifact
  /\ CanWrite
  /\ update_video_status(cur[w], "failed", "graphiti_init_failed")
  /\ AfterIngest(w, "false", NULL)
  /\ UNCHANGED <<retries, created, created_fmt, analysis, analysis_row, subtitles, ops, envVars, fsVars, lock>>

(* ingest_transcription: db.update_video_status(vid, "ingesting"). *)
ingest_transcription_mark(w) ==
  /\ AtIngest(w)
  /\ cur[w] \in artifact
  /\ CanWrite
  /\ update_video_status(cur[w], "ingesting", NULL)
  /\ Goto(w, "ingesting")
  /\ UNCHANGED <<retries, created, created_fmt, analysis, analysis_row, subtitles, ops, envVars, fsVars, lock, err, res>>

(* ingest_transcription: the ingestor returned True; 'done'. *)
ingest_transcription_done(w) ==
  /\ pc[w] = "ingesting"
  /\ CanWrite
  /\ update_video_status(cur[w], "done", NULL)
  /\ AfterIngest(w, "true", NULL)
  /\ UNCHANGED <<retries, created, created_fmt, analysis, analysis_row, subtitles, ops, envVars, fsVars, lock>>

(* What the ingestor's failures store: it raised, or it returned False. *)
IngestFailures == {"graphiti_raised", "ingest_returned_false"}

(* ingest_transcription: the ingestor raised or returned False; 'failed',  *)
(* return False.                                                           *)
ingest_transcription_failed(w, msg) ==
  /\ pc[w] = "ingesting"
  /\ CanWrite
  /\ update_video_status(cur[w], "failed", msg)
  /\ AfterIngest(w, "false", NULL)
  /\ UNCHANGED <<retries, created, created_fmt, analysis, analysis_row, subtitles, ops, envVars, fsVars, lock>>

(* run_worker: `if step is None: db.update_video_status(vid, "done")`. *)
run_worker_done(w) ==
  /\ pc[w] = "mark_done"
  /\ CanWrite
  /\ update_video_status(cur[w], "done", NULL)
  /\ NextIteration(w)
  /\ UNCHANGED <<retries, created, created_fmt, analysis, analysis_row, subtitles, ops, envVars, fsVars, lock>>

-----------------------------------------------------------------------------
(* Retry policy *)

(* increment_retries: SELECT retries FROM videos WHERE id=?. *)
increment_retries_read(w) ==
  /\ pc[w] = "inc_done"
  /\ rv' = [rv EXCEPT ![w] = retries[cur[w]]]
  /\ pc' = [pc EXCEPT ![w] = "decide"]
  /\ UNCHANGED <<dbVars, fsVars, lock, ops, envVars, mode, cur, err, res>>

(* A handler after which the worker stops instead of looping. *)
run_worker_retry_halting(w) ==
  /\ pc[w] = "decide"
  /\ CanWrite
  /\ update_video_status(cur[w], RetryStatus(rv[w]), err[w])
  /\ pc' = [pc EXCEPT ![w] = "stopped"]
  /\ UNCHANGED <<retries, created, created_fmt, analysis, analysis_row, subtitles, ops, envVars, fsVars, lock,
                 mode, cur, err, res, rv>>

(* run_worker's handler: 'todo' or 'failed' with str(e). *)
run_worker_retry(w) ==
  /\ pc[w] = "decide"
  /\ CanWrite
  /\ update_video_status(cur[w], RetryStatus(rv[w]), err[w])
  /\ NextIteration(w)
  /\ UNCHANGED <<retries, created, created_fmt, analysis, analysis_row, subtitles, ops, envVars, fsVars, lock>>

-----------------------------------------------------------------------------
(* Specifications *)

Operator ==
  \/ \E v \in Ids : add_video(v)
  \/ \E v \in Ids : fix_ingest_add_video(v)
  \/ \E v \in Ids : \E s \in Steps : retry(v, s)

Claim(w) ==
  \/ get_next_video_none(w)
  \/ get_next_video_select(w)
  \/ get_next_video_update(w)

Acquire(w) ==
  \/ download_video_mark(w)
  \/ download_video_not_found(w)
  \/ run_worker_downloaded(w)

Transcribe(w) ==
  \/ run_worker_must_download(w)
  \/ run_worker_file_missing(w)
  \/ transcribe_video_existing(w)
  \/ transcribe_video_mark(w)
  \/ transcribe_video_done(w)
  \/ transcribe_video_raised(w)
  \/ transcribe_video_saved(w)

Ingest(w) ==
  \/ run_worker_no_transcript(w)
  \/ ingest_transcription_init_failed(w)
  \/ ingest_transcription_mark(w)
  \/ ingest_transcription_done(w)
  \/ \E msg \in IngestFailures : ingest_transcription_failed(w, msg)
  \/ run_worker_done(w)

RetryPolicy(w) ==
  \/ increment_retries_read(w)
  \/ run_worker_retry(w)

Worker(w) ==
  \/ \E s \in Steps : run_worker(w, s)
  \/ Claim(w)
  \/ Acquire(w)
  \/ Transcribe(w)
  \/ Ingest(w)
  \/ RetryPolicy(w)

Next ==
  \/ Operator
  \/ \E w \in Workers : Worker(w)

Init ==
  /\ status = [v \in Ids |-> "none"]
  /\ retries = [v \in Ids |-> 0]
  /\ error = [v \in Ids |-> NULL]
  /\ created = <<>>
  /\ created_fmt = [v \in Ids |-> "iso"]
  /\ analysis = {}
  /\ analysis_row = [v \in Ids |-> NoRow]
  /\ subtitles = [v \in Ids |-> {}]
  /\ media \in SUBSET {v \in Ids : SourceOf(v) = "local"}
  /\ artifact = {}
  /\ lock = NoVid
  /\ pc = [w \in Workers |-> "stopped"]
  /\ mode = [w \in Workers |-> "full"]
  /\ cur = [w \in Workers |-> NoVid]
  /\ err = [w \in Workers |-> NULL]
  /\ res = [w \in Workers |-> "none"]
  /\ rv = [w \in Workers |-> 0]
  /\ ops = 0
  /\ content = "plain"
  /\ tree = {}
  /\ transcription_path = None
  /\ vids = <<>>
  /\ printed = Nothing

Spec == Init /\ [][Next]_vars

(* A queue as prepare and `retry --step` leave it, and no operator while   *)
(* the workers run.  A transcription file is only ever written next to a   *)
(* media file.                                                             *)
InitPrepared ==
  /\ status \in [Ids -> {"todo", "downloaded", "transcribed"}]
  /\ retries = [v \in Ids |-> 0]
  /\ error = [v \in Ids |-> NULL]
  /\ created = <<"a", "b">>
  /\ created_fmt = [v \in Ids |-> "iso"]
  /\ analysis = {}
  /\ analysis_row = [v \in Ids |-> NoRow]
  /\ subtitles = [v \in Ids |-> {}]
  /\ media \in SUBSET Ids
  /\ artifact \in SUBSET media
  /\ lock = NoVid
  /\ pc = [w \in Workers |-> "stopped"]
  /\ mode = [w \in Workers |-> "full"]
  /\ cur = [w \in Workers |-> NoVid]
  /\ err = [w \in Workers |-> NULL]
  /\ res = [w \in Workers |-> "none"]
  /\ rv = [w \in Workers |-> 0]
  /\ ops = 0
  /\ content = "plain"
  /\ tree = {}
  /\ transcription_path = None
  /\ vids = <<>>
  /\ printed = Nothing

NextWorkers == \E w \in Workers : Worker(w)

SpecWorkers == InitPrepared /\ [][NextWorkers]_vars

(* A step of worker w's loop: anything but being started by the operator. *)
WorkerStep(w) ==
  \/ Claim(w)
  \/ Acquire(w)
  \/ Transcribe(w)
  \/ Ingest(w)
  \/ RetryPolicy(w)

(* Worker processes keep running, and every collaborator call returns or   *)
(* raises: a worker that can take a step of its loop eventually takes one. *)
SpecWorkersFair ==
  SpecWorkers /\ \A w \in Workers : WF_vars(WorkerStep(w))

(* The remote item queued once, and an acquisition that always raises:     *)
(* workers of `run` and `run download`, no download ever leaves a file.    *)
InitAcqFail ==
  /\ status = [v \in Ids |-> IF SourceOf(v) = "youtube" THEN "todo" ELSE "none"]
  /\ retries = [v \in Ids |-> 0]
  /\ error = [v \in Ids |-> NULL]
  /\ created = <<"a">>
  /\ created_fmt = [v \in Ids |-> "iso"]
  /\ analysis = {}
  /\ analysis_row = [v \in Ids |-> NoRow]
  /\ subtitles = [v \in Ids |-> {}]
  /\ media = {}
  /\ artifact = {}
  /\ lock = NoVid
  /\ pc = [w \in Workers |-> "stopped"]
  /\ mode = [w \in Workers |-> "full"]
  /\ cur = [w \in Workers |-> NoVid]
  /\ err = [w \in Workers |-> NULL]
  /\ res = [w \in Workers |-> "none"]
  /\ rv = [w \in Workers |-> 0]
  /\ ops = 0
  /\ content = "plain"
  /\ tree = {}
  /\ transcription_path = None
  /\ vids = <<>>
  /\ printed = Nothing

NextAcqFail ==
  \E w \in Workers :
    \/ \E s \in {"full", "download"} : run_worker(w, s)
    \/ Claim(w)
    \/ download_video_mark(w)
    \/ download_video_not_found(w)
    \/ RetryPolicy(w)

SpecAcqFail == InitAcqFail /\ [][NextAcqFail]_vars

(* A queue as prepare leaves it: every item 'todo', nothing stored yet, the *)
(* files of an earlier run possibly on disk; no operator while the workers *)
(* run.  A remote item reaches 'downloaded' only with its mp4 on disk, so  *)
(* the "Must download first" branch is not taken.                          *)
InitQueued ==
  /\ status = [v \in Ids |-> "todo"]
  /\ retries = [v \in Ids |-> 0]
  /\ error = [v \in Ids |-> NULL]
  /\ created = <<"a", "b">>
  /\ created_fmt = [v \in Ids |-> "iso"]
  /\ analysis = {}
  /\ analysis_row = [v \in Ids |-> NoRow]
  /\ subtitles = [v \in Ids |-> {}]
  /\ media \in SUBSET Ids
  /\ artifact \in SUBSET media
  /\ lock = NoVid
  /\ pc = [w \in Workers |-> "stopped"]
  /\ mode = [w \in Workers |-> "full"]
  /\ cur = [w \in Workers |-> NoVid]
  /\ err = [w \in Workers |-> NULL]
  /\ res = [w \in Workers |-> "none"]
  /\ rv = [w \in Workers |-> 0]
  /\ ops = 0
  /\ content = "plain"
  /\ tree = {}
  /\ transcription_path = None
  /\ vids = <<>>
  /\ printed = Nothing

NextQueued ==
  \E w \in Workers :
    \/ \E s \in Steps : run_worker(w, s)
    \/ Claim(w)
    \/ Acquire(w)
    \/ run_worker_file_missing(w)
    \/ transcribe_video_existing(w)
    \/ transcribe_video_mark(w)
    \/ transcribe_video_done(w)
    \/ transcribe_video_raised(w)
    \/ transcribe_video_saved(w)
    \/ Ingest(w)
    \/ RetryPolicy(w)

SpecQueued == InitQueued /\ [][NextQueued]_vars

(* The same, with worker processes that keep running once started. *)
SpecAcqFailFair ==
  SpecAcqFail /\ \A w \in Workers : WF_vars(WorkerStep(w))

(* Workers that may die at any point, and no operator. *)
NextCrash ==
  \/ \E w \in Workers : Worker(w)
  \/ \E w \in Workers : crash(w)

SpecCrash == InitPrepared /\ [][NextCrash]_vars

(* The items downloaded, their media on disk and possibly the transcription *)
(* files of an earlier run; rich transcripts.  Workers of `run transcribe`, *)
(* and an operator who sends items back with `retry <id> --step transcribe`. *)
InitContent ==
  /\ status = [v \in Ids |-> "downloaded"]
  /\ retries = [v \in Ids |-> 0]
  /\ error = [v \in Ids |-> NULL]
  /\ created = <<"a", "b">>
  /\ created_fmt = [v \in Ids |-> "iso"]
  /\ analysis = {}
  /\ analysis_row = [v \in Ids |-> NoRow]
  /\ subtitles = [v \in Ids |-> {}]
  /\ media = Ids
  /\ artifact \in SUBSET Ids
  /\ lock = NoVid
  /\ pc = [w \in Workers |-> "stopped"]
  /\ mode = [w \in Workers |-> "full"]
  /\ cur = [w \in Workers |-> NoVid]
  /\ err = [w \in Workers |-> NULL]
  /\ res = [w \in Workers |-> "none"]
  /\ rv = [w \in Workers |-> 0]
  /\ ops = 0
  /\ content = "rich"
  /\ tree = {}
  /\ transcription_path = None
  /\ vids = <<>>
  /\ printed = Nothing

NextContent ==
  \/ \E v \in Ids : retry(v, "transcribe")
  \/ \E w \in Workers :
       \/ run_worker(w, "transcribe")
       \/ Claim(w)
       \/ transcribe_video_existing(w)
       \/ transcribe_video_mark(w)
       \/ transcribe_video_done(w)
       \/ transcribe_video_raised(w)
       \/ transcribe_video_saved(w)
       \/ RetryPolicy(w)

SpecContent == InitContent /\ [][NextContent]_vars

(* The items as prepare leaves them, the local item's media on disk, and   *)
(* collaborators that succeed: every download leaves its file, every       *)
(* transcription returns, the ingestor returns True.  Workers of           *)
(* `run download`, `run transcribe` and `run ingest`; no operator.         *)
InitSucceed ==
  /\ status = [v \in Ids |-> "todo"]
  /\ retries = [v \in Ids |-> 0]
  /\ error = [v \in Ids |-> NULL]
  /\ created = <<"a", "b">>
  /\ created_fmt = [v \in Ids |-> "iso"]
  /\ analysis = {}
  /\ analysis_row = [v \in Ids |-> NoRow]
  /\ subtitles = [v \in Ids |-> {}]
  /\ media = {v \in Ids : SourceOf(v) = "local"}
  /\ artifact \in SUBSET media
  /\ lock = NoVid
  /\ pc = [w \in Workers |-> "stopped"]
  /\ mode = [w \in Workers |-> "full"]
  /\ cur = [w \in Workers |-> NoVid]
  /\ err = [w \in Workers |-> NULL]
  /\ res = [w \in Workers |-> "none"]
  /\ rv = [w \in Workers |-> 0]
  /\ ops = 0
  /\ content = "plain"
  /\ tree = {}
  /\ transcription_path = None
  /\ vids = <<>>
  /\ printed = Nothing

NextSucceed ==
  \E w \in Workers :
    \/ \E s \in {"download", "transcribe", "ingest"} : run_worker(w, s)
    \/ Claim(w)
    \/ download_video_mark(w)
    \/ run_worker_downloaded(w)
    \/ transcribe_video_existing(w)
    \/ transcribe_video_mark(w)
    \/ transcribe_video_done(w)
    \/ transcribe_video_saved(w)
    \/ run_worker_no_transcript(w)
    \/ ingest_transcription_mark(w)
    \/ ingest_transcription_done(w)

SpecSucceed == InitSucceed /\ [][NextSucceed]_vars

-----------------------------------------------------------------------------
(* The transcript lookup of run_worker for remote items.  Strings are      *)
(* sequences of characters.                                                *)

DOWNLOAD_DIR == <<"d", "o", "w", "n", "l", "o", "a", "d", "s">>
TranscriptionSuffix == <<"_", "t", "r", "a", "n", "s", "c", "r", "i", "p", "t", "i", "o", "n", ".", "m", "d">>

(* Path `/`: the string of root / name. *)
Join(root, name) == root \o <<"/">> \o name

(* `sub in text` on strings. *)
Contains(text, sub) ==
  \E i \in 1..(Len(text) + 1) :
    /\ i + Len(sub) - 1 <= Len(text)
    /\ SubSeq(text, i, i + Len(sub) - 1) = sub

(* The position of the first "/" of a string that has one. *)
SlashAt(text) ==
  CHOOSE i \in 1..Len(text) :
    text[i] = "/" /\ \A k \in 1..(i - 1) : text[k] # "/"

(* vid.split("/", 1): <<channel_id, video_id>>. *)
SplitVid(vid) ==
  <<SubSeq(vid, 1, SlashAt(vid) - 1), SubSeq(vid, SlashAt(vid) + 1, Len(vid))>>

(* DOWNLOAD_DIR.glob("**/*_transcription.md"), kept where `name in str(f)`. *)
GlobMatches(files, name) ==
  {f \in files :
     /\ Len(f) >= Len(TranscriptionSuffix)
     /\ SubSeq(f, Len(f) - Len(TranscriptionSuffix) + 1, Len(f)) = TranscriptionSuffix
     /\ Contains(f, name)}

(* The first match of the search: the order in which glob yields the files *)
(* is the directory order of the file system, so any match may be first.   *)
FirstGlobMatch(files, name) ==
  IF GlobMatches(files, name) = {} THEN {None} ELSE GlobMatches(files, name)

(* The values transcription_path may have after the lookup for a remote    *)
(* item with the path-based id vid.                                        *)
ResolveComposite(files, vid) ==
  LET channel_id == SplitVid(vid)[1]
      video_id == SplitVid(vid)[2]
      expected_path == Join(Join(DOWNLOAD_DIR, channel_id), video_id \o TranscriptionSuffix)
      fallback_path == Join(DOWNLOAD_DIR, vid \o TranscriptionSuffix)
      video_only_path == Join(DOWNLOAD_DIR, video_id \o TranscriptionSuffix)
  IN  IF expected_path \in files THEN {expected_path}
      ELSE IF fallback_path \in files THEN {fallback_path}
      ELSE IF video_only_path \in files THEN {video_only_path}
      ELSE FirstGlobMatch(files, video_id)

(* The same for a regular id. *)
ResolveDirect(files, vid) ==
  LET direct_path == Join(DOWNLOAD_DIR, vid \o TranscriptionSuffix)
  IN  IF direct_path \in files THEN {direct_path}
      ELSE FirstGlobMatch(files, vid)

(* The lookup of run_worker's ingest stage for a remote item. *)
ResolveTranscript(files, vid) ==
  IF Contains(vid, <<"/">>)
  THEN ResolveComposite(files, vid)
  ELSE ResolveDirect(files, vid)

(* The ids looked up: a path-based one and a regular one. *)
CompositeVid == <<"c", "/", "v", "1">>
DirectVid == <<"v", "1">>
LookupVids == {CompositeVid, DirectVid}

(* The files that may lie under DOWNLOAD_DIR: the transcript in the        *)
(* channel folder, at the top, in another folder, the transcript of        *)
(* another video whose id starts the same, an unrelated transcript and a   *)
(* media file.                                                             *)
InChannel == <<"d", "o", "w", "n", "l", "o", "a", "d", "s", "/", "c", "/", "v", "1", "_", "t", "r", "a", "n", "s", "c", "r", "i", "p", "t", "i", "o", "n", ".", "m", "d">>
AtTop == <<"d", "o", "w", "n", "l", "o", "a", "d", "s", "/", "v", "1", "_", "t", "r", "a", "n", "s", "c", "r", "i", "p", "t", "i", "o", "n", ".", "m", "d">>
InOtherFolder == <<"d", "o", "w", "n", "l", "o", "a", "d", "s", "/", "d", "/", "v", "1", "_", "t", "r", "a", "n", "s", "c", "r", "i", "p", "t", "i", "o", "n", ".", "m", "d">>
OfOtherVideo == <<"d", "o", "w", "n", "l", "o", "a", "d", "s", "/", "d", "/", "v", "1", "0", "_", "t", "r", "a", "n", "s", "c", "r", "i", "p", "t", "i", "o", "n", ".", "m", "d">>
Unrelated == <<"d", "o", "w", "n", "l", "o", "a", "d", "s", "/", "c", "/", "w", "_", "t", "r", "a", "n", "s", "c", "r", "i", "p", "t", "i", "o", "n", ".", "m", "d">>
MediaFile == <<"d", "o", "w", "n", "l", "o", "a", "d", "s", "/", "c", "/", "v", "1", ".", "m", "p", "4">>
LookupFiles == {InChannel, AtTop, InOtherFolder, OfOtherVideo, Unrelated, MediaFile}

(* run_worker, ingest stage: the lookup of the transcript of item vid. *)
run_worker_lookup(vid) ==
  /\ transcription_path' \in ResolveTranscript(tree, vid)
  /\ UNCHANGED <<dbVars, fsVars, lock, workerVars, ops, content, tree, vids, printed>>

InitLookup ==
  /\ status = [v \in Ids |-> "none"]
  /\ retries = [v \in Ids |-> 0]
  /\ error = [v \in Ids |-> NULL]
  /\ created = <<>>
  /\ created_fmt = [v \in Ids |-> "iso"]
  /\ analysis = {}
  /\ analysis_row = [v \in Ids |-> NoRow]
  /\ subtitles = [v \in Ids |-> {}]
  /\ media = {}
  /\ artifact = {}
  /\ lock = NoVid
  /\ pc = [w \in Workers |-> "stopped"]
  /\ mode = [w \in Workers |-> "full"]
  /\ cur = [w \in Workers |-> NoVid]
  /\ err = [w \in Workers |-> NULL]
  /\ res = [w \in Workers |-> "none"]
  /\ rv = [w \in Workers |-> 0]
  /\ ops = 0
  /\ content = "plain"
  /\ tree \in SUBSET LookupFiles
  /\ transcription_path = None
  /\ vids = <<>>
  /\ printed = Nothing

NextLookup == \E vid \in LookupVids : run_worker_lookup(vid)

SpecLookup == InitLookup /\ [][NextLookup]_vars

-----------------------------------------------------------------------------
(* The reporting commands `status` and `errors`, applied to the rows that  *)
(* list_videos returns.  A row is [id, status, error, updated_at]; the     *)
(* time is <<second, microsecond>> and updated_at is its isoformat text.   *)

(* The number of rows reported on. *)
ReportRows == 6

(* status prints failed_sorted[:5]. *)
RecentLimit == 5

Digit(n) == <<"0", "1", "2", "3", "4", "5", "6", "7", "8", "9">>[n + 1]

(* datetime.now(timezone.utc).isoformat(): the fraction is left out when   *)
(* the microsecond is 0, and the offset follows.                           *)
isoformat(t) ==
  <<Digit(t[1])>> \o (IF t[2] = 0 THEN <<>> ELSE <<".", Digit(t[2])>>) \o <<"+">>

(* The code point order of the characters of a timestamp. *)
Ord(c) ==
  CASE c = "+" -> 43
    [] c = "." -> 46
    [] OTHER -> 48 + (CHOOSE n \in 0..9 : Digit(n) = c)

(* x < y on strings. *)
StrLess(x, y) ==
  \E i \in 1..(Len(x) + 1) :
    /\ \A k \in 1..(i - 1) : k <= Len(y) /\ x[k] = y[k]
    /\ i <= Len(y)
    /\ i <= Len(x) => Ord(x[i]) < Ord(y[i])

(* One step of sorted(..., key=updated_at, reverse=True): the sort is      *)
(* stable, so v goes behind every row whose key is not below its own.      *)
InsertDescending(rows, v) ==
  LET before == {k \in 1..Len(rows) : ~StrLess(rows[k].updated_at, v.updated_at)}
      p == Cardinality(before)
  IN  SubSeq(rows, 1, p) \o <<v>> \o SubSeq(rows, p + 1, Len(rows))

RECURSIVE sorted_reverse(_)
sorted_reverse(rows) ==
  IF rows = <<>>
  THEN <<>>
  ELSE InsertDescending(sorted_reverse(SubSeq(rows, 1, Len(rows) - 1)), rows[Len(rows)])

(* `v["status"] == "failed" and v.get("error")`: None and "" are false. *)
IsListedFailure(v) == v.status = "failed" /\ v.error # NULL /\ v.error # ""

(* [v for v in vids if ...] *)
SelectSeq2(rows) == SelectSeq(rows, IsListedFailure)

(* counts[v["status"]] = counts.get(v["status"], 0) + 1 over the rows. *)
CountByStatus(rows) ==
  [s \in {rows[k].status : k \in 1..Len(rows)} |->
     Cardinality({k \in 1..Len(rows) : rows[k].status = s})]

(* failed_sorted[:n] *)
Take(rows, n) == SubSeq(rows, 1, IF Len(rows) < n THEN Len(rows) ELSE n)

(* pipeline.status: the counts and the five most recent failures. *)
pipeline_status ==
  /\ printed' = [cmd |-> "status",
                 counts |-> CountByStatus(vids),
                 failed |-> Take(sorted_reverse(SelectSeq2(vids)), RecentLimit)]
  /\ UNCHANGED <<dbVars, fsVars, lock, workerVars, ops, content, tree,
                 transcription_path, vids>>

(* pipeline.errors: every failure. *)
pipeline_errors ==
  /\ printed' = [cmd |-> "errors",
                 counts |-> <<>>,
                 failed |-> sorted_reverse(SelectSeq2(vids))]
  /\ UNCHANGED <<dbVars, fsVars, lock, workerVars, ops, content, tree,
                 transcription_path, vids>>

(* What a row may hold: a failure with the message of its exception, a     *)
(* failure whose exception had an empty message, an item done, an item     *)
(* queued.                                                                 *)
RowKinds ==
  { <<"failed", "msg">>, <<"failed", "">>, <<"done", NULL>>, <<"todo", NULL>> }

(* The times of the rows' last writes: in the order of the rows, against   *)
(* it, or all within one second.                                           *)
TimePatterns == {"ascending", "descending", "same_second"}

TimeOf(pattern, k) ==
  CASE pattern = "ascending" -> <<k, 0>>
    [] pattern = "descending" -> <<ReportRows + 1 - k, 0>>
    [] pattern = "same_second" -> <<1, k - 1>>

InitReport ==
  /\ status = [v \in Ids |-> "none"]
  /\ retries = [v \in Ids |-> 0]
  /\ error = [v \in Ids |-> NULL]
  /\ created = <<>>
  /\ created_fmt = [v \in Ids |-> "iso"]
  /\ analysis = {}
  /\ analysis_row = [v \in Ids |-> NoRow]
  /\ subtitles = [v \in Ids |-> {}]
  /\ media = {}
  /\ artifact = {}
  /\ lock = NoVid
  /\ pc = [w \in Workers |-> "stopped"]
  /\ mode = [w \in Workers |-> "full"]
  /\ cur = [w \in Workers |-> NoVid]
  /\ err = [w \in Workers |-> NULL]
  /\ res = [w \in Workers |-> "none"]
  /\ rv = [w \in Workers |-> 0]
  /\ ops = 0
  /\ content = "plain"
  /\ tree = {}
  /\ transcription_path = None
  /\ \E kinds \in [1..ReportRows -> RowKinds] : \E pattern \in TimePatterns :
       vids = [k \in 1..ReportRows |->
                 [id |-> k, status |-> kinds[k][1], error |-> kinds[k][2],
                  time |-> TimeOf(pattern, k),
                  updated_at |-> isoformat(TimeOf(pattern, k))]]
  /\ printed = Nothing

NextReport == pipeline_status \/ pipeline_errors

SpecReport == InitReport /\ [][NextReport]_vars

-----------------------------------------------------------------------------
(* Properties *)

(* get_next_video returns its row to worker w in this step. *)
Returned(w) == pc[w] = "claim_tx" /\ pc'[w] = "claimed"

(* From the return of get_next_video until the iteration's last write. *)
Holds(w) ==
  pc[w] \in {"claimed", "downloading", "transcribing", "resumed",
             "ingest_entry", "ingesting", "mark_done", "inc_done", "decide"}

(* C1: exclusivity of claiming.  Whenever get_next_video(step) returns an *)
(* item, that item is in the step's predecessor status just before and no  *)
(* longer in it just after, and no other invocation is between its SELECT  *)
(* and its UPDATE; so the item is returned again for the step only after a *)
(* later write has put it back into the predecessor status.                *)
C1_Exclusivity ==
  [][\A w \in Workers :
       Returned(w) =>
         /\ status[cur[w]] = status_to_claim(mode[w])
         /\ status'[cur[w]] # status_to_claim(mode[w])
         /\ \A w2 \in Workers \ {w} : pc[w2] # "claim_tx"]_vars

(* Two workers of the same step have each just been returned an item, and  *)
(* the items differ.                                                       *)
C1_Witness ==
  /\ pc["w1"] = "claimed"
  /\ pc["w2"] = "claimed"
  /\ mode["w1"] = mode["w2"]
  /\ cur["w1"] # cur["w2"]

(* C2: while a full-pipeline worker holds the item it claimed, no other    *)
(* worker holds that item.                                                 *)
C2_FullPipelineKeepsItem ==
  \A w1 \in Workers : \A w2 \in Workers \ {w1} :
    (mode[w1] = "full" /\ Holds(w1) /\ Holds(w2)) => cur[w1] # cur[w2]

(* Worker w writes 'done' in this step. *)
WroteDone(w) ==
  /\ pc[w] \in {"ingesting", "mark_done"}
  /\ pc'[w] # pc[w]
  /\ status'[cur[w]] = "done"

(* C3: a worker writes 'done' only when the ingestor, called for the item  *)
(* in this iteration, returned True.                                       *)
C3_DoneOnlyAfterIngest ==
  [][\A w \in Workers :
       WroteDone(w) => (pc[w] = "ingesting" \/ res[w] = "true")]_vars

C5_RetryToFailure ==
  \A v \in Ids :
    status[v] # "none" =>
      /\ <<status[v], retries[v]>> \in
           {<<"todo", 0>>, <<"downloading", 0>>, <<"downloading", 1>>,
            <<"todo", 1>>, <<"downloading", 2>>, <<"failed", 2>>}
      /\ (status[v] = "failed" \/ (retries[v] > 0 /\ status[v] = "todo"))
           => error[v] # NULL

(* The item has failed for good after its second attempt. *)
C5_Witness ==
  /\ status["a"] = "failed"
  /\ retries["a"] = 2
  /\ error["a"] = "downloaded_file_not_found"

(* C5, as claimed: the item is requeued twice and fails only on its third  *)
(* attempt, the one after 'todo' with retries 2.                           *)
C5_ThreeAttempts ==
  \A v \in Ids : status[v] = "failed" => retries[v] = MAX_RETRIES + 1

(* A collaborator raised in this step of worker w: the exception reached   *)
(* the worker loop, or the ingestor's was caught in ingest_transcription.  *)
CollaboratorRaised(w) ==
  \/ pc[w] # "inc_done" /\ pc'[w] = "inc_done"
  \/ /\ pc[w] = "ingesting"
     /\ pc'[w] # "ingesting"
     /\ error'[cur[w]] = "graphiti_raised"

(* C6: every exception a collaborator raises increments the item's retries *)
(* counter by exactly one.                                                 *)
C6_RaiseCountsRetry ==
  [][\A w \in Workers :
       CollaboratorRaised(w) =>
         retries'[cur[w]] = retries[cur[w]] + 1]_vars

MissingArtifactErrors ==
  {"downloaded_file_not_found", "must_download_first",
   "video_file_not_found", "transcript_not_found"}

(* Worker w finds a required file missing in this step. *)
MissingArtifact(w) ==
  /\ pc[w] \in {"claimed", "downloading", "ingest_entry"}
  /\ pc'[w] # pc[w]
  /\ \/ err'[w] \in MissingArtifactErrors
     \/ error'[cur[w]] \in MissingArtifactErrors

(* C7: a missing artifact goes through the retry policy: the retries       *)
(* counter is incremented when it is found missing.                        *)
C7_MissingArtifactRetries ==
  [][\A w \in Workers :
       MissingArtifact(w) =>
         retries'[cur[w]] = retries[cur[w]] + 1]_vars

(* C8: when a stage failed for the item of an iteration, the item ends the *)
(* iteration in 'todo' or 'failed' with its error column set.              *)
C8_ErrorsVisible ==
  [][\A w \in Workers :
       (Holds(w) /\ pc'[w] = "loop" /\ (err[w] # NULL \/ res[w] = "false"))
         => /\ status'[cur[w]] \in {"todo", "failed"}
            /\ error'[cur[w]] # NULL]_vars

(* C9: no step of a worker changes the status of an item that is 'done' or *)
(* 'failed'.                                                               *)
C9_TerminalStatesStay ==
  [][\A v \in Ids :
       status[v] \in {"done", "failed"} => status'[v] = status[v]]_vars

(* C10: get_next_video(step) returns an item that was in the step's        *)
(* predecessor status and writes the step's in-progress status; the item's *)
(* retries and error, every other row and the other tables stay as they    *)
(* were.                                                                   *)
C10_ClaimTable ==
  [][\A w \in Workers :
       Returned(w) =>
         /\ mode[w] \in {"full", "download"} =>
              (status[cur[w]] = "todo" /\ status'[cur[w]] = "downloading")
         /\ mode[w] = "transcribe" =>
              (status[cur[w]] = "downloaded" /\ status'[cur[w]] = "transcribing")
         /\ mode[w] = "ingest" =>
              (status[cur[w]] = "transcribed" /\ status'[cur[w]] = "ingesting")
         /\ \A v \in Ids \ {cur[w]} : status'[v] = status[v]
         /\ UNCHANGED <<retries, error, created, created_fmt, analysis>>]_vars

(* An item requeued by the retry policy has just been returned again: its  *)
(* retries count and its error are those the policy stored.                *)
C10_Witness ==
  \E w \in Workers :
    /\ pc[w] = "claimed"
    /\ status[cur[w]] = "downloading"
    /\ retries[cur[w]] = 1
    /\ error[cur[w]] # NULL

(* The position of item v in the order the rows were created. *)
CreatedIndex(v) == CHOOSE i \in 1..Len(created) : created[i] = v

(* C11: FIFO within a status bucket.  Whenever get_next_video(step)        *)
(* returns an item, no item created before it is in the step's predecessor *)
(* status: of two eligible items the one created first is returned first.  *)
C11_FIFO ==
  [][\A w \in Workers :
       Returned(w) =>
         \A i \in Matching(mode[w]) : CreatedIndex(cur[w]) <= i]_vars

(* Worker w calls the ingestor in this step. *)
IngestInvoked(w) == pc[w] # "ingesting" /\ pc'[w] = "ingesting"

(* C12, the ingest half: with every item queued by prepare and no operator *)
(* command afterwards, the ingestor is called for an item only when a      *)
(* transcribe stage has completed for it, that is when its segments and    *)
(* analysis have been saved.                                               *)
C12_IngestAfterTranscribe ==
  [][\A w \in Workers : IngestInvoked(w) => cur[w] \in analysis]_vars

(* The stage a position of run_worker belongs to. *)
StageOf(label) ==
  CASE label = "downloading" -> "download"
    [] label \in {"transcribing", "resumed"} -> "transcribe"
    [] label \in {"ingest_entry", "ingesting", "mark_done"} -> "ingest"
    [] OTHER -> "none"

(* C13: a worker started with an explicit step enters that step's stage    *)
(* only, never the final 'done' write of the full pipeline; the status it  *)
(* writes when the stage succeeds is the step's success status             *)
(* ('downloaded', 'transcribed', 'done'), and it then goes back to the     *)
(* loop without touching the item again.                                   *)
C13_SingleStage ==
  [][\A w \in Workers :
       (mode[w] # "full" /\ pc[w] # "stopped") =>
         /\ StageOf(pc'[w]) \in {"none", mode[w]}
         /\ pc'[w] # "mark_done"
         /\ (pc[w] = "downloading" /\ pc'[w] = "loop") =>
              status'[cur[w]] = "downloaded"
         /\ (pc[w] = "transcribing" /\ pc'[w] = "loop") =>
              status'[cur[w]] = "transcribed"
         /\ (pc[w] = "claimed" /\ pc'[w] = "resumed") =>
              status'[cur[w]] = "transcribed"
         /\ (pc[w] = "resumed" /\ pc'[w] = "loop") =>
              UNCHANGED <<status, retries, error>>
         /\ (pc[w] = "ingesting" /\ pc'[w] = "loop" /\ error'[cur[w]] = NULL) =>
              status'[cur[w]] = "done"]_vars

(* A `run download` worker and a `run transcribe` worker are both back at  *)
(* the loop, and an item is 'transcribed' with its analysis saved and no   *)
(* failure recorded.                                                       *)
C13_Witness ==
  \E w1 \in Workers : \E w2 \in Workers : \E v \in Ids :
    /\ mode[w1] = "download" /\ pc[w1] = "loop"
    /\ mode[w2] = "transcribe" /\ pc[w2] = "loop"
    /\ status[v] = "transcribed"
    /\ v \in analysis
    /\ retries[v] = 0
    /\ error[v] = NULL

(* The row of item v, as far as the store keeps it. *)
Row(v) == <<status[v], retries[v], error[v]>>

(* C14: Database.add_video on an id sets its status to 'todo', its retries *)
(* to 0 and its error to null whatever they were, leaves the analysis rows *)
(* and every other item as they were, and on an item it has just reset it  *)
(* changes nothing in the store: twice in a row is the same as once.       *)
C14_IdempotentUpsert ==
  [][\A v \in Ids :
       add_video(v) =>
         /\ Row(v)' = <<"todo", 0, NULL>>
         /\ analysis' = analysis
         /\ \A u \in Ids \ {v} : Row(u)' = Row(u)
         /\ Row(v) = <<"todo", 0, NULL>> => UNCHANGED dbVars]_vars

(* The local item was reset by an upsert after its transcription had       *)
(* raised: a worker still holds the count 1 it read, the row is back in    *)
(* 'todo' with retries 0 and no error.                                     *)
C14_Witness ==
  \E w \in Workers :
    /\ pc[w] = "decide"
    /\ cur[w] = "b"
    /\ rv[w] = 1
    /\ Row("b") = <<"todo", 0, NULL>>

(* C15: a worker whose item has its transcription file when the transcribe *)
(* stage starts never takes the fresh path ('transcribing' and a backend   *)
(* call): it writes 'transcribed', and its next step saves the segments    *)
(* and the analysis parsed from the file, without raising.                 *)
C15_IdempotentResume ==
  [][\A w \in Workers :
       /\ (pc[w] # "transcribing" /\ pc'[w] = "transcribing") =>
            cur[w] \notin artifact
       /\ (pc[w] # "resumed" /\ pc'[w] = "resumed") =>
            (cur[w] \in artifact /\ status'[cur[w]] = "transcribed")
       /\ (pc[w] = "resumed" /\ pc'[w] # "resumed") =>
            /\ pc'[w] \in {"loop", "ingest_entry"}
            /\ cur[w] \in analysis'
            /\ UNCHANGED <<retries, artifact>>]_vars

(* A `run transcribe` worker has found the transcription file of the item  *)
(* it claimed and has marked the item 'transcribed'.                       *)
C15_Witness ==
  \E w \in Workers :
    /\ mode[w] = "transcribe"
    /\ pc[w] = "resumed"
    /\ cur[w] \in artifact
    /\ status[cur[w]] = "transcribed"

(* C16: a worker stops only at get_next_video, when no item is in the      *)
(* status its step claims from; an exception that reached the handler      *)
(* leads through increment_retries and the status write back to the loop.  *)
C16_FailureDoesNotHalt ==
  [][\A w \in Workers :
       /\ (pc[w] # "stopped" /\ pc'[w] = "stopped") =>
            (pc[w] = "loop" /\ Matching(mode[w]) = {})
       /\ (pc[w] = "inc_done" /\ pc'[w] # "inc_done") => pc'[w] = "decide"
       /\ (pc[w] = "decide" /\ pc'[w] # "decide") => pc'[w] = "loop"]_vars

(* The remote item, queued first, has failed for good, and a full-pipeline *)
(* worker has gone on and claimed the local item queued after it.          *)
C16_Witness ==
  \E w \in Workers :
    /\ mode[w] = "full"
    /\ pc[w] = "claimed"
    /\ cur[w] = "b"
    /\ created = <<"a", "b">>
    /\ status["a"] = "failed"
    /\ retries["a"] = MAX_RETRIES
    /\ error["a"] = "downloaded_file_not_found"

(* C17: with no operator command while the workers run, every worker loop  *)
(* that has been started eventually gets None from get_next_video and      *)
(* exits, and when it exits no item is in the status its step claims from. *)
C17_Termination ==
  /\ \A w \in Workers : (pc[w] # "stopped") ~> (pc[w] = "stopped")
  /\ [][\A w \in Workers :
          (pc[w] = "loop" /\ pc'[w] = "stopped") =>
            \A v \in Ids : status[v] # status_to_claim(mode[w])]_vars

(* Every worker has exited, every item is 'done' or 'failed', and one item *)
(* has used up its retries.                                                *)
C17_Witness ==
  /\ \A w \in Workers : pc[w] = "stopped"
  /\ \A v \in Ids : status[v] \in {"done", "failed"}
  /\ \E v \in Ids : retries[v] = MAX_RETRIES

(* C18: with no reset by the operator, an item whose acquisition always    *)
(* raises never has more than MAX_RETRIES failures counted, the handler    *)
(* never requeues it to 'todo' once its retries count has reached          *)
(* MAX_RETRIES, and once a worker is running the item eventually is        *)
(* 'failed'.                                                               *)
C18_BoundedRetries ==
  /\ [](\A v \in Ids : retries[v] <= MAX_RETRIES)
  /\ [][\A w \in Workers :
          (pc[w] = "decide" /\ pc'[w] = "loop" /\ status'[cur[w]] = "todo")
            => retries[cur[w]] < MAX_RETRIES]_vars
  /\ (\E w \in Workers : pc[w] # "stopped") ~> (status["a"] = "failed")

(* The item has failed with MAX_RETRIES failures counted, and every worker *)
(* has found the queue empty and exited.                                   *)
C18_Witness ==
  /\ status["a"] = "failed"
  /\ retries["a"] = MAX_RETRIES
  /\ \A w \in Workers : pc[w] = "stopped"

InProgress == {"downloading", "transcribing", "ingesting"}

(* C19: get_next_video never returns an item that is in an in-progress     *)
(* status, and an in-progress item that no running worker holds, its       *)
(* worker having died, keeps its status at every step of the workers.      *)
C19_CrashParking ==
  [][/\ \A w \in Workers :
          Returned(w) => status[cur[w]] \notin InProgress
     /\ \A v \in Ids :
          (status[v] \in InProgress /\ \A w \in Workers : cur[w] # v)
            => status'[v] = status[v]]_vars

(* Every worker has exited or died, and an item is left 'transcribing'. *)
C19_Witness ==
  /\ \A w \in Workers : pc[w] = "stopped"
  /\ \E v \in Ids : status[v] = "transcribing"

(* C20: `retry <id> [--step s]` on an item of the store sets its status to *)
(* 'todo' for download or no step, 'downloaded' for transcribe and         *)
(* 'transcribed' for ingest, sets its error to null, and leaves its        *)
(* retries, every other item and the other tables as they were; on an id   *)
(* that is not in the store it changes nothing.                            *)
C20_OperatorRetry ==
  [][\A v \in Ids : \A s \in Steps :
       retry(v, s) =>
         IF status[v] = "none"
         THEN UNCHANGED dbVars
         ELSE /\ s \in {"full", "download"} => status'[v] = "todo"
              /\ s = "transcribe" => status'[v] = "downloaded"
              /\ s = "ingest" => status'[v] = "transcribed"
              /\ error'[v] = NULL
              /\ retries' = retries
              /\ \A u \in Ids \ {v} : Row(u)' = Row(u)
              /\ UNCHANGED <<created, created_fmt, analysis>>]_vars

(* An item that had used up its retries was sent back by `retry --step     *)
(* ingest`: it is 'transcribed' with no error and its count kept.          *)
C20_Witness ==
  \E v \in Ids :
    /\ status[v] = "transcribed"
    /\ retries[v] = MAX_RETRIES
    /\ error[v] = NULL

(* C21, as amended: retries is a natural number for every item; a step     *)
(* leaves it unchanged or adds one, except a re-submission (the upsert of  *)
(* Database.add_video, the INSERT OR REPLACE of fix_ingest), which sets it *)
(* to 0; operator retry leaves it as it is.                                *)
C21_RetriesMonotone ==
  /\ [](\A v \in Ids : retries[v] \in Nat)
  /\ [][\A v \in Ids :
          /\ \/ retries'[v] = retries[v]
             \/ retries'[v] = retries[v] + 1
             \/ retries'[v] = 0 /\ (add_video(v) \/ fix_ingest_add_video(v))
          /\ \A s \in Steps : retry(v, s) => retries' = retries]_vars

(* An item that had used up its retries is back in 'todo' with no error    *)
(* and its count kept: only operator retry leaves a row like that.         *)
C21_Witness ==
  \E v \in Ids :
    /\ status[v] = "todo"
    /\ retries[v] = MAX_RETRIES
    /\ error[v] = NULL

(* C21, as claimed: operator retry resets the retries counter to 0. *)
C21_RetryResets ==
  [][\A v \in Ids : \A s \in Steps :
       (retry(v, s) /\ status[v] # "none") => retries'[v] = 0]_vars

(* The rows of the videos table that carry id v. *)
RowsOf(v) == {i \in 1..Len(created) : created[i] = v}

(* C22: every row's status is one of todo, downloading, downloaded,        *)
(* transcribing, transcribed, ingesting, done, failed, and there is        *)
(* exactly one row for every id submitted and none for the others.         *)
C22_StatusAndIds ==
  \A v \in Ids :
    /\ status[v] \in Statuses \cup {"none"}
    /\ Cardinality(RowsOf(v)) = IF status[v] = "none" THEN 0 ELSE 1

(* The remote item was submitted again while a worker was handling its     *)
(* failure: the count the worker read is 1, the row has been reset, and it *)
(* is still the only row.                                                  *)
C22_Witness ==
  \E w \in Workers :
    /\ pc[w] = "decide"
    /\ cur[w] = "a"
    /\ rv[w] = 1
    /\ retries["a"] = 0
    /\ created = <<"a">>

(* C23: increment_retries returns the count its own UPDATE produced: while *)
(* a worker is between the UPDATE and the SELECT of increment_retries, no  *)
(* step changes the retries of the item it is counting for.                *)
C23_IncrementAtomic ==
  [][\A w \in Workers :
       (pc[w] = "inc_done" /\ pc'[w] = "inc_done") =>
         retries'[cur[w]] = retries[cur[w]]]_vars

(* Nothing but the status and the error of item v changes in the store. *)
OnlyStatusAndErrorOf(v) ==
  /\ \A u \in Ids \ {v} : Row(u)' = Row(u)
  /\ UNCHANGED <<retries, created, created_fmt, analysis>>

(* C24: update_video_status(id, status, error) leaves the row with the     *)
(* status and the error given, whatever they were before (an error of null *)
(* clears the earlier one), and changes neither the row's retries and      *)
(* created_at nor any other row: checked at the call of download_video,    *)
(* at the handler's call and at the full pipeline's final call.            *)
C24_UnconditionalWrite ==
  [][\A w \in Workers : \A v \in Ids :
       v = cur[w] =>
         /\ download_video_mark(w) =>
              /\ Row(v)' = <<"downloading", retries[v], NULL>>
              /\ OnlyStatusAndErrorOf(v)
         /\ run_worker_retry(w) =>
              /\ Row(v)' =
                   <<IF rv[w] < MAX_RETRIES THEN "todo" ELSE "failed",
                     retries[v], err[w]>>
              /\ OnlyStatusAndErrorOf(v)
         /\ run_worker_done(w) =>
              /\ Row(v)' = <<"done", retries[v], NULL>>
              /\ OnlyStatusAndErrorOf(v)]_vars

(* download_video has marked an item 'downloading' on its second attempt:  *)
(* the error stored by the first attempt is gone, the count is kept.       *)
C24_Witness ==
  \E w \in Workers :
    /\ pc[w] = "downloading"
    /\ Row(cur[w]) = <<"downloading", 1, NULL>>

(* What a transcription that returned result r leaves in an empty table. *)
StoredOf(r) == <<SaveSubtitles({}, r.segments), r.analysis>>

(* The results transcribe() can return for item v in this state. *)
ResultsFor(v) == transcribe(v, FALSE) \cup transcribe(v, TRUE)

(* Worker w's step saves the segments and the analysis of a transcription. *)
TranscribeSaves(w) == transcribe_video_done(w) \/ transcribe_video_saved(w)

(* C25: when a transcribe stage saves the segments of an item, the rows    *)
(* stored for the item afterwards are exactly the rows of the segments of  *)
(* the transcription whose analysis it stored: no row of an earlier        *)
(* transcription remains.                                                  *)
C25_SegmentsReplaced ==
  [][\A w \in Workers : \A v \in Ids :
       (v = cur[w] /\ TranscribeSaves(w)) =>
         \E r \in ResultsFor(v) :
           <<subtitles'[v], analysis_row'[v]>> = StoredOf(r)]_vars


(* C26: the analysis table holds one row per item that was transcribed and *)
(* none for the others, and a transcribe stage that saves leaves as the    *)
(* item's row the analysis of the transcription whose segments it saved,   *)
(* whatever row was there before.                                          *)
C26_AnalysisOverwritten ==
  /\ [](analysis = {v \in Ids : analysis_row[v] # NoRow})
  /\ [][\A w \in Workers : \A v \in Ids :
          (v = cur[w] /\ TranscribeSaves(w)) =>
            \E r \in ResultsFor(v) :
              /\ analysis_row'[v] = r.analysis
              /\ subtitles'[v] = SaveSubtitles(subtitles[v], r.segments)]_vars

(* An item transcribed twice: a row of the first, offmute, transcription   *)
(* is still stored, and the analysis row is the one parsed from the file.  *)
C26_Witness ==
  \E v \in Ids :
    /\ status[v] = "transcribed"
    /\ <<1, 2>> \in subtitles[v]
    /\ analysis_row[v] = <<"audio_analysis", "[]">>


(* The segment rows and the analysis row stored for item v. *)
StoredRows(v) == <<subtitles[v], analysis_row[v], v \in analysis>>

(* C27: the segment rows and the analysis row of an item change only in a  *)
(* step of the transcribe stage of a worker holding the item; the upsert,  *)
(* the claim, the status writes, increment_retries, the operator's retry   *)
(* and the acquire and ingest stages leave them as they are.               *)
C27_OnlyTranscribeWrites ==
  [][\A v \in Ids :
       StoredRows(v)' # StoredRows(v) =>
         \E w \in Workers : cur[w] = v /\ TranscribeSaves(w)]_vars

(* An item that was transcribed and ingested, then submitted again: it is  *)
(* back in 'todo' and its segment and analysis rows are still stored.      *)
C27_Witness ==
  \E v \in Ids :
    /\ status[v] = "todo"
    /\ subtitles[v] # {}
    /\ analysis_row[v] # NoRow
    /\ \A w \in Workers : cur[w] # v


(* C30: when a transcribe stage has saved the segments of an item, at      *)
(* least one row is stored for the item whose start_sec is below its       *)
(* end_sec.                                                                *)
C30_TimedSegment ==
  [][\A w \in Workers : \A v \in Ids :
       (v = cur[w] /\ TranscribeSaves(w)) =>
         \E row \in subtitles'[v] : row[1] < row[2]]_vars


(* C28: the lookup for the path-based id c/v1 takes the transcript in the  *)
(* channel folder when it exists, else the one at the top of DOWNLOAD_DIR  *)
(* when that exists, else a match of the recursive search, and None when   *)
(* there is no match; the files under DOWNLOAD_DIR determine the result.   *)
C28_ResolutionOrder ==
  [][run_worker_lookup(CompositeVid) =>
       /\ transcription_path' =
            (IF InChannel \in tree THEN InChannel
             ELSE IF AtTop \in tree THEN AtTop
             ELSE IF GlobMatches(tree, SplitVid(CompositeVid)[2]) = {} THEN None
             ELSE transcription_path')
       /\ transcription_path' # None =>
            transcription_path' \in GlobMatches(tree, SplitVid(CompositeVid)[2])
       /\ \A f \in ResolveTranscript(tree, CompositeVid) :
            transcription_path' = f]_vars


(* The success status of the stage a `run <step>` works on. *)
SuccessOf(step) ==
  CASE step = "download" -> "downloaded"
    [] step = "transcribe" -> "transcribed"
    [] step = "ingest" -> "done"

(* C29: with collaborators that succeed, a `run <step>` worker changes the *)
(* status of the remote item it holds only to the in-progress and the      *)
(* success status of its stage, and lets go of the item in the success     *)
(* status: 'downloaded', then 'transcribed', then 'done'.                  *)
C29_EndToEnd ==
  [][\A w \in Workers : \A v \in Ids :
       (v = cur[w] /\ SourceOf(v) = "youtube") =>
         /\ status'[v] # status[v] =>
              status'[v] \in {new_status(mode[w]), SuccessOf(mode[w])}
         /\ cur'[w] # v => status'[v] = SuccessOf(mode[w])]_vars


(* C31: a transcribe stage that resumes from the transcription file of an  *)
(* item stores the analysis row that the earlier transcription of the item *)
(* stored: resumed or freshly computed, the row is the same.               *)
C31_ResumeEquivalence ==
  [][\A w \in Workers : \A v \in Ids :
       (v = cur[w] /\ transcribe_video_saved(w) /\ analysis_row[v] # NoRow) =>
         analysis_row'[v] = analysis_row[v]]_vars


(* t1 is earlier than t2. *)
Earlier(t1, t2) == t1[1] < t2[1] \/ (t1[1] = t2[1] /\ t1[2] < t2[2])

(* The rows with status 'failed' and an error that is not NULL. *)
FailedWithError == {k \in 1..Len(vids) : vids[k].status = "failed" /\ vids[k].error # NULL}

(* The listing is in the order of updated_at, latest first, without        *)
(* repetition.                                                             *)
LatestFirst(listing) ==
  \A i, j \in 1..Len(listing) :
    i < j => (listing[i].id # listing[j].id /\ ~Earlier(listing[i].time, listing[j].time))

(* The listing holds n rows of the set, and no row left out is later than  *)
(* one listed.                                                             *)
HoldsLatest(listing, rows, n) ==
  /\ {listing[i].id : i \in 1..Len(listing)} \subseteq rows
  /\ Len(listing) = n
  /\ \A k \in rows \ {listing[i].id : i \in 1..Len(listing)} :
       \A i \in 1..Len(listing) : ~Earlier(listing[i].time, vids[k].time)

(* C32: `status` prints for every status the number of rows in it and the  *)
(* five latest of the rows that are 'failed' with a non-null error,        *)
(* `errors` prints all of those rows, latest first, and neither writes.    *)
C32_Reporting ==
  [][/\ pipeline_status =>
          /\ \A s \in Statuses :
               Cardinality({k \in 1..Len(vids) : vids[k].status = s}) =
                 (IF s \in DOMAIN printed'.counts THEN printed'.counts[s] ELSE 0)
          /\ LatestFirst(printed'.failed)
          /\ HoldsLatest(printed'.failed, FailedWithError,
                         IF Cardinality(FailedWithError) < RecentLimit
                         THEN Cardinality(FailedWithError) ELSE RecentLimit)
          /\ UNCHANGED <<dbVars, vids>>
     /\ pipeline_errors =>
          /\ LatestFirst(printed'.failed)
          /\ HoldsLatest(printed'.failed, FailedWithError, Cardinality(FailedWithError))
          /\ UNCHANGED <<dbVars, vids>>]_vars


(* C33: an item that is 'failed' has an error stored, and an item that is  *)
(* 'done' has none.                                                        *)
C33_ErrorMatchesStatus ==
  \A v \in Ids :
    /\ status[v] = "failed" => error[v] # NULL
    /\ status[v] = "done" => error[v] = NULL

(* One item has failed for good after its retries and the other is done    *)
(* after an earlier failure of its own.                                    *)
C33_Witness ==
  \E v, u \in Ids :
    /\ status[v] = "failed" /\ error[v] # NULL /\ retries[v] = MAX_RETRIES
    /\ status[u] = "done" /\ error[u] = NULL /\ retries[u] > 0


(* Worker w's iteration ends: it goes back to get_next_video. *)
IterationEnds(w) == Holds(w) /\ pc'[w] = "loop"

(* C34: when a worker's iteration ends, by success, by a failure the stage *)
(* handled or through the exception handler, the item it had claimed is    *)
(* not left in 'downloading', 'transcribing' or 'ingesting'.               *)
C34_NothingLeftParked ==
  [][\A w \in Workers : \A v \in Ids :
       (v = cur[w] /\ IterationEnds(w)) => status'[v] \notin InProgress]_vars


(* The segment rows and the analysis row of item v are stored. *)
Persisted(v) == v \in analysis /\ subtitles[v] # {}

(* C35: when the transcribe stage writes 'transcribed' for an item, the    *)
(* segments and the analysis of the transcription are stored by then, and  *)
(* get_next_video hands an item to the ingest step only with them stored.  *)
C35_TranscribedAfterSave ==
  [][\A w \in Workers : \A v \in Ids :
       v = cur[w] =>
         /\ (transcribe_video_existing(w) \/ transcribe_video_done(w)) => Persisted(v)'
         /\ (Returned(w) /\ mode[w] = "ingest") => Persisted(v)]_vars


(* The statuses only a reset gives to an item that a worker holds: the     *)
(* worker itself has it in-progress, 'transcribed' or 'failed' until its   *)
(* iteration's last write.                                                 *)
ResetStatuses == {"todo", "downloaded"}

(* C36: a worker never writes the status of the item it holds over a reset *)
(* that add_video or the operator's retry made meanwhile, and no two       *)
(* workers hold the same item at any time.                                 *)
C36_ResetNotLost ==
  /\ [][\A w \in Workers : \A v \in Ids :
          (v = cur[w] /\ Holds(w) /\ pc'[w] # pc[w] /\ status'[v] # status[v])
            => status[v] \notin ResetStatuses]_vars
  /\ [](\A w1 \in Workers : \A w2 \in Workers \ {w1} :
          (Holds(w1) /\ Holds(w2)) => cur[w1] # cur[w2])


(* C37: re-submitting an existing id keeps its created_at, text and place  *)
(* in the creation order, for both Database.add_video and                  *)
(* fix_ingest.add_video.                                                   *)
C37_ResubmissionKeepsCreatedAt ==
  [][\A v \in Ids :
       (status[v] # "none" /\ (add_video(v) \/ fix_ingest_add_video(v))) =>
         /\ created' = created
         /\ created_fmt'[v] = created_fmt[v]]_vars


(* The transcripts under DOWNLOAD_DIR that belong to other items than the  *)
(* two looked up: that of video v10 and that of video w.                   *)
TranscriptsOfOthers == {OfOtherVideo, Unrelated}

(* C38: the lookup of the ingest stage, the recursive search included,     *)
(* never resolves an item to the transcript of another item, also when     *)
(* the item's id is a part of the other item's id.                         *)
C38_NeverAnothersTranscript ==
  [][\A vid \in LookupVids :
       run_worker_lookup(vid) => transcription_path' \notin TranscriptsOfOthers]_vars


(* The transcribe stage of worker w saved result r for item v in this step. *)
SavedResult(v, r) ==
  /\ subtitles'[v] = SaveSubtitles(subtitles[v], r.segments)
  /\ analysis_row'[v] = save_analysis(analysis_row[v], r.analysis)

(* C39: when the transcribe stage saves a result, every segment returned   *)
(* by the transcriber is stored as a row of its own: the rows written for  *)
(* the result are as many as its segments, none overwrites another.        *)
C39_NoSegmentLost ==
  [][\A w \in Workers : \A v \in Ids : \A r \in ResultsFor(v) :
       (v = cur[w] /\ TranscribeSaves(w) /\ SavedResult(v, r)) =>
         /\ Cardinality(SaveSubtitles({}, r.segments)) = Len(r.segments)
         /\ SaveSubtitles({}, r.segments) \subseteq subtitles'[v]]_vars

=============================================================================
